---- MODULE Spec2Model ----
(***************************************************************************)
(* The session-oriented chat relay of lab4/server.c: one handler thread    *)
(* per accepted connection, the two linked-list registries (client_list,   *)
(* session_list) with their two mutexes, the per-frame protocol engine     *)
(* (process_message) and the broadcast fan-out.                            *)
(*                                                                         *)
(* Granularity.  A handler's step holds at most one access to shared      *)
(* state: one critical section (lock, body, unlock: atomic with respect to *)
(* every other section on the same mutex), or one unlocked write to its    *)
(* own client_t, or one close; the thread-local code around it (read_line, *)
(* sscanf, building and sending the reply) rides along.  client->id and    *)
(* client->session are written outside any mutex by the owning handler and *)
(* read by the others under clients_mutex; a reader therefore sees the     *)
(* value before or after such a write, whichever the interleaving gives.   *)
(* Names are shorter than MAX_NAME, so strncpy copies them whole.          *)
(***************************************************************************)
EXTENDS Integers, Sequences, FiniteSets, TLC

\* ------------------------------------------------------------------ bounds
MaxFrames == 5      \* frames the handlers read in a run, all connections together

MaxCmds   == 4      \* commands the user types in a run of the client
MaxLogins == 2      \* /login commands among them
MaxLines  == 2      \* lines a client writes in a run of the line reader
MaxBroadcasts == 2  \* MESSAGE frames the handlers read in a run of the teardown part
SndBuf    == 1      \* frames a connection's send buffer takes before send() blocks

MaxOps    == 4      \* frames and thread starts and ends in a run of the locking part

\* The handler threads of the locking part.
LThreads == 1..3

MaxMessages == 3    \* MESSAGE frames the clients write in a run of the broadcast part

\* The connections of the broadcast part.
BConns == 1..4

FileFrags == 3      \* fragments of the file sent in a run of the transfer part
MaxDelivered == 4   \* datagrams the network hands to the receiver in such a run

\* The connections of the teardown part.
TConns == 1..3

\* The listener accepts two connections in a run; descriptors are numbered
\* from 1 and a closed one is handed out again.
Conns == 1..2
Fds   == 1..2

\* -------------------------------------------------------- protocol constants
LOGIN      == 1
LO_ACK     == 2
LO_NAK     == 3
EXIT       == 4
JOIN       == 5
JN_ACK     == 6
JN_NAK     == 7
LEAVE_SESS == 8
NEW_SESS   == 9
NS_ACK     == 10
MESSAGE    == 11
QUERY      == 12
QU_ACK     == 13

MAX_NAME   == 50
MAX_DATA   == 1024
max_len    == 2048      \* sizeof(buffer), read_line's third argument
MAX_RETRIES == 300      \* lab3/deliver.c: the sender's timeouts per fragment

allowed_users == << [id |-> "ken",  password |-> "12345"],
                    [id |-> "andy", password |-> "12345"] >>

\* ------------------------------------------------- what clients put on the wire
SessionNames == {"team", "lab"}
UserNames    == {"ken", "andy"}

Frame(t, src, d) == [type |-> t, size |-> Len(d), source |-> src, data |-> d]

\* The frames a client may send, already decoded.  The server reads the source
\* field of LOGIN and relays the source field of MESSAGE; for the other types
\* it never looks at it, so one value stands for all.  An empty payload is what
\* the reference client sends with EXIT, LEAVE_SESS and QUERY.
ClientFrames ==
       { Frame(LOGIN, "ken", "12345"), Frame(LOGIN, "andy", "12345"),
         Frame(LOGIN, "ken", "bad") }
  \cup { Frame(EXIT, "ken", "") }
  \cup { Frame(JOIN, "ken", s) : s \in SessionNames }
  \cup { Frame(NEW_SESS, "ken", s) : s \in SessionNames }
  \cup { Frame(LEAVE_SESS, "ken", d) : d \in {""} \cup SessionNames }
  \cup { Frame(MESSAGE, u, "hello") : u \in UserNames }
  \cup { Frame(QUERY, "ken", "") }

NoMsg == Frame(0, "", "")

\* The end-to-end scenario of the specification's testable properties: A
\* (connection 1) logs in and creates "team", B (connection 2) logs in and
\* joins it, A sends "hello", A leaves, B queries; each frame is sent once
\* the one before it has been dealt with.
Scenario ==
  << [conn |-> 1, frame |-> Frame(LOGIN, "ken", "12345")],
     [conn |-> 1, frame |-> Frame(NEW_SESS, "ken", "team")],
     [conn |-> 2, frame |-> Frame(LOGIN, "andy", "12345")],
     [conn |-> 2, frame |-> Frame(JOIN, "ken", "team")],
     [conn |-> 1, frame |-> Frame(MESSAGE, "ken", "hello")],
     [conn |-> 1, frame |-> Frame(LEAVE_SESS, "ken", "")],
     [conn |-> 2, frame |-> Frame(QUERY, "ken", "")] >>

\* ------------------------------------------------------------------- state
VARIABLES
  client_list,     \* the linked list of client_t, head first
  session_list,    \* the linked list of session_t (their session_id), head first
  fds,             \* the descriptor table: fd -> the connection it refers to, 0 if free
  sockfd,          \* client->sockfd
  id,              \* client->id
  session,         \* client->session
  pc,              \* where each handler thread is
  nframes,         \* frames read so far
  msg,             \* the frame the handler is processing
  list,            \* the QUERY case's list buffer
  rx,              \* history: the handler that took the last step, and its frame
  wire,            \* history: the send() calls of the last step, in order
  prev_session,    \* history: client->session before EXIT or LEAVE_SESS cleared it
  scen             \* history: the Scenario frame due next, 0 once the run has left it

\* One connection seen at the level of bytes: handle_client's loop over
\* read_line and sscanf, with process_message taken as a whole.
VARIABLES
  stream,          \* the bytes the client has written and recv has not yet returned
  shut,            \* the client has closed its end
  lpc,             \* where the handler is
  buffer,          \* handle_client's buffer as the last read_line left it
  handled,         \* history: the struct message of each call of process_message
  cut,             \* history: the last read_line stopped at max_len - 1, in mid-line
  nlines           \* lines written so far

\* One message through the codec: the encoder of either side, the line, and
\* the decoder of each side.
VARIABLES
  c_pc,            \* how far the message has got
  c_msg,           \* the struct message given to the encoder
  c_line,          \* the bytes the encoder sent
  c_srv,           \* what the server's sscanf returned and stored
  c_cli            \* what the client's sscanf returned and stored

\* The reference client of lab4/client.c with the server as its peer: the
\* command thread (main), the receive loops (receive_handler), the globals
\* they share without a lock, and the connection.
VARIABLES
  cl_sockfd,       \* sockfd: -1, or the connection the global refers to
  loggedIn,        \* loggedIn
  current_session, \* current_session
  pending_session, \* pending_session
  cmd,             \* where the command thread is, and the session_id it works on
  recv_thread,     \* each receive loop started: where it is, the msg it decoded
  outbox,          \* frames written on the connection, not yet read by the server
  inbox,           \* frames the server wrote, not yet read by a receive loop
  srv_open,        \* the server's end of the connection is open
  srv_session,     \* client->session of this connection on the server
  ncmds,           \* commands typed so far
  nlogins          \* /login commands among them: connections made so far

\* Teardown beside broadcasts: three handler threads of the server,
\* clients_mutex as a lock that is held over the send() calls of
\* broadcast_message, and the send buffers toward the peers.
VARIABLES
  td_pc,           \* where each handler thread is
  clients_mutex,   \* 0, or the connection whose handler holds clients_mutex
  td_list,         \* client_list, head first
  td_session,      \* client->session of each connection
  td_open,         \* the connection's descriptor is open
  td_sndbuf,       \* frames in the send buffer toward each peer
  td_cur,          \* broadcast_message's cur: the nodes still to visit
  nbroadcasts      \* MESSAGE frames read so far

\* The two mutexes of the server and, for each handler thread, the lock and
\* unlock calls it still has to make for the frame it is handling.
VARIABLES
  lk_holder,       \* for clients_mutex and sessions_mutex: 0, or the thread holding it
  lk_todo,         \* each thread's pthread_mutex calls still to come, next first
  nops             \* operations begun so far

\* The order of broadcasts: four registered connections, the MESSAGE frames
\* their clients write, the handlers' fan-out under clients_mutex, and what
\* arrives on each connection.
VARIABLES
  bc_session,      \* client->session of each connection
  bc_in,           \* MESSAGE frames each client has written, not yet read by its handler
  bc_pc,           \* where each handler thread is
  bc_msg,          \* the frame each handler is broadcasting
  bc_cur,          \* broadcast_message's cur: the nodes still to visit
  bc_mutex,        \* 0, or the connection whose handler holds clients_mutex
  bc_out,          \* history: the frames written to each connection, in order
  nmessages        \* MESSAGE frames written by the clients so far

\* The UDP file transfer of lab3/deliver.c once the handshake is over: the
\* sender's fragment loop, the receiver's fragment loop, and the datagrams
\* in flight between them (of equal datagrams the network carries one).
VARIABLES
  tx_pc,           \* where the sender is: before sendto, in select, or done
  frag_no,         \* the sender's frag_no
  attempts,        \* the sender's attempts
  datagrams,       \* fragments in flight to the receiver, by number
  replies,         \* datagrams in flight to the sender: ACK numbers, 0 for "no"
  rx_pc,           \* where the receiver is: in its fragment loop, or back at the handshake
  total_frag,      \* the receiver's total_frag
  fp,              \* the receiver's fp is an open file
  written,         \* history: the fragments fwrite has put in the file fp refers to
  ndelivered       \* datagrams handed to the receiver so far

relay_vars == << client_list, session_list, fds, sockfd, id, session, pc, nframes, msg,
                 list, rx, wire, prev_session, scen >>

line_vars == << stream, shut, lpc, buffer, handled, cut, nlines >>

codec_vars == << c_pc, c_msg, c_line, c_srv, c_cli >>

client_vars == << cl_sockfd, loggedIn, current_session, pending_session, cmd,
                  recv_thread, outbox, inbox, srv_open, srv_session, ncmds, nlogins >>

teardown_vars == << td_pc, clients_mutex, td_list, td_session, td_open, td_sndbuf,
                    td_cur, nbroadcasts >>

lock_vars == << lk_holder, lk_todo, nops >>

broadcast_vars == << bc_session, bc_in, bc_pc, bc_msg, bc_cur, bc_mutex, bc_out,
                     nmessages >>

transfer_vars == << tx_pc, frag_no, attempts, datagrams, replies, rx_pc, total_frag, fp,
                    written, ndelivered >>

vars == << relay_vars, line_vars, codec_vars, client_vars, teardown_vars, lock_vars,
           broadcast_vars, transfer_vars >>

\* What the steps of one part leave alone: the variables of the other parts.
not_relay == << line_vars, codec_vars, client_vars, teardown_vars, lock_vars,
                broadcast_vars, transfer_vars >>

not_line == << relay_vars, codec_vars, client_vars, teardown_vars, lock_vars,
               broadcast_vars, transfer_vars >>

not_codec == << relay_vars, line_vars, client_vars, teardown_vars, lock_vars,
                broadcast_vars, transfer_vars >>

not_client == << relay_vars, line_vars, codec_vars, teardown_vars, lock_vars,
                 broadcast_vars, transfer_vars >>

not_teardown == << relay_vars, line_vars, codec_vars, client_vars, lock_vars,
                   broadcast_vars, transfer_vars >>

not_lock == << relay_vars, line_vars, codec_vars, client_vars, teardown_vars,
               broadcast_vars, transfer_vars >>

not_broadcast == << relay_vars, line_vars, codec_vars, client_vars, teardown_vars,
                    lock_vars, transfer_vars >>

not_transfer == << relay_vars, line_vars, codec_vars, client_vars, teardown_vars,
                   lock_vars, broadcast_vars >>

\* --------------------------------------------------------------- list helpers
Range(s) == { s[i] : i \in 1..Len(s) }

\* Unlink the first node matching x, as the *cur walks of remove_client and
\* remove_session_if_empty do.
RemoveFirst(s, x) ==
  IF x \notin Range(s) THEN s
  ELSE LET i == CHOOSE j \in 1..Len(s) : s[j] = x /\ \A k \in 1..(j-1) : s[k] # x
       IN  SubSeq(s, 1, i-1) \o SubSeq(s, i+1, Len(s))

\* Mutant of is_valid_user: every pair is taken for one of the table.
is_valid_userAny(uid, password) == TRUE

is_valid_user(uid, password) ==
  \E i \in 1..Len(allowed_users) :
     allowed_users[i].id = uid /\ allowed_users[i].password = password

is_already_logged_in(uid) == \E k \in Range(client_list) : id[k] = uid

find_session(sid) == sid \in Range(session_list)

session_has_clients(sid) == \E k \in Range(client_list) : session[k] = sid

\* ------------------------------------------------------------------ sockets
LowestFreeFd == CHOOSE f \in Fds : fds[f] = 0 /\ \A g \in Fds : g < f => fds[g] # 0

\* A send() call as the network sees it: the descriptor written, the connection
\* that descriptor refers to at that moment (0: it is closed and send fails),
\* and the frame.
send_message_to_client(fd, m) == [fd |-> fd, to |-> fds[fd], frame |-> m]

Reply(t, d) == Frame(t, "server", d)

\* --------------------------------------------------------------------- Init
Init ==
  /\ client_list = << >>
  /\ session_list = << >>
  /\ fds = [f \in Fds |-> 0]
  /\ sockfd = [c \in Conns |-> 0]
  /\ id = [c \in Conns |-> ""]
  /\ session = [c \in Conns |-> ""]
  /\ pc = [c \in Conns |-> "none"]
  /\ nframes = 0
  /\ msg = [c \in Conns |-> NoMsg]
  /\ list = [c \in Conns |-> ""]
  /\ rx = [conn |-> 0, frame |-> NoMsg]
  /\ wire = << >>
  /\ prev_session = [c \in Conns |-> ""]
  /\ scen = 1
  /\ stream = << >>
  /\ shut = FALSE
  /\ lpc = "read"
  /\ buffer = << >>
  /\ handled = << >>
  /\ cut = FALSE
  /\ nlines = 0
  /\ cl_sockfd = -1
  /\ loggedIn = 0
  /\ current_session = ""
  /\ pending_session = ""
  /\ cmd = [at |-> "prompt", session_id |-> ""]
  /\ recv_thread = [t \in 1..MaxLogins |-> [at |-> "none", msg |-> NoMsg]]
  /\ outbox = << >>
  /\ inbox = << >>
  /\ srv_open = FALSE
  /\ srv_session = ""
  /\ ncmds = 0
  /\ nlogins = 0
  /\ c_pc = "idle"
  /\ c_msg = [type |-> 0, size |-> 0, source |-> << >>, data |-> << >>]
  /\ c_line = << >>
  /\ c_srv = [fields |-> 0, msg |-> c_msg, overflow |-> FALSE]
  /\ c_cli = [fields |-> 0, msg |-> c_msg, overflow |-> FALSE]
  /\ td_pc = [c \in TConns |-> "add_client"]
  /\ clients_mutex = 0
  /\ td_list = << >>
  /\ td_session = [c \in TConns |-> ""]
  /\ td_open = [c \in TConns |-> TRUE]
  /\ td_sndbuf = [c \in TConns |-> 0]
  /\ td_cur = [c \in TConns |-> << >>]
  /\ nbroadcasts = 0
  /\ lk_holder = [m \in {"clients_mutex", "sessions_mutex"} |-> 0]
  /\ lk_todo = [t \in LThreads |-> << >>]
  /\ nops = 0
  /\ bc_session = [c \in BConns |-> ""]
  /\ bc_in = [c \in BConns |-> << >>]
  /\ bc_pc = [c \in BConns |-> "read"]
  /\ bc_msg = [c \in BConns |-> [from |-> 0, seq |-> 0]]
  /\ bc_cur = [c \in BConns |-> << >>]
  /\ bc_mutex = 0
  /\ bc_out = [c \in BConns |-> << >>]
  /\ nmessages = 0
  /\ tx_pc = "sendto"
  /\ frag_no = 1
  /\ attempts = 0
  /\ datagrams = {}
  /\ replies = {}
  /\ rx_pc = "fragments"
  /\ total_frag = 0
  /\ fp = FALSE
  /\ written = << >>
  /\ ndelivered = 0

\* ------------------------------------------------- listener and handler frame

\* Handler c is between two frames, or not started.
Idle(c) == pc[c] \in {"none", "add_client", "read", "done"}

\* Frame f read by c now is the scenario's next one.
OnScript(c, f) ==
  /\ scen \in 1..Len(Scenario)
  /\ Scenario[scen] = [conn |-> c, frame |-> f]
  /\ \A k \in Conns : Idle(k)

\* A step of handler c working on frame f that makes the send() calls w; the
\* step reads f when c is at read_line.
Step(c, f, w) ==
  /\ rx' = [conn |-> c, frame |-> f]
  /\ wire' = w
  /\ nframes' = IF pc[c] = "read" /\ f # NoMsg THEN nframes + 1 ELSE nframes
  /\ scen' = IF pc[c] # "read" THEN scen
             ELSE IF OnScript(c, f) THEN scen + 1 ELSE 0
  /\ UNCHANGED not_relay

\* main's accept and pthread_create, and handle_client's set-up of its client_t.
\* The listener accepts one connection after another: they are numbered in
\* that order.
Accept(c) ==
  /\ pc[c] = "none"
  /\ \A k \in Conns : k < c => pc[k] # "none"
  /\ \E f \in Fds : fds[f] = 0
  /\ fds' = [fds EXCEPT ![LowestFreeFd] = c]
  /\ sockfd' = [sockfd EXCEPT ![c] = LowestFreeFd]
  /\ id' = [id EXCEPT ![c] = ""]
  /\ session' = [session EXCEPT ![c] = ""]
  /\ pc' = [pc EXCEPT ![c] = "add_client"]
  /\ Step(c, NoMsg, << >>)
  /\ UNCHANGED << client_list, session_list, msg, list, prev_session >>

add_client(c) ==
  /\ pc[c] = "add_client"
  /\ client_list' = << c >> \o client_list
  /\ pc' = [pc EXCEPT ![c] = "read"]
  /\ Step(c, NoMsg, << >>)
  /\ UNCHANGED << session_list, fds, sockfd, id, session, msg, list, prev_session >>

\* read_line returned a line of type t that sscanf split into at least three
\* fields; process_message switches on msg->type.
Reads(c, f, t) ==
  /\ pc[c] = "read"
  /\ nframes < MaxFrames \/ OnScript(c, f)
  /\ f \in ClientFrames
  /\ f.type = t

\* The case is over (break) and msg.type is not EXIT: back to read_line, where
\* handle_client's loop clears msg at its next turn.
BackToRead(c) ==
  /\ pc' = [pc EXCEPT ![c] = "read"]
  /\ msg' = [msg EXCEPT ![c] = NoMsg]
  /\ list' = [list EXCEPT ![c] = ""]
  /\ prev_session' = [prev_session EXCEPT ![c] = ""]

\* The case is over and msg.type is EXIT: handle_client leaves its loop.
BreakLoop(c) ==
  /\ pc' = [pc EXCEPT ![c] = "close"]
  /\ msg' = [msg EXCEPT ![c] = NoMsg]
  /\ list' = [list EXCEPT ![c] = ""]
  /\ prev_session' = [prev_session EXCEPT ![c] = ""]

\* The case goes on in a later step at label l, working on frame f.
GoOn(c, f, l) ==
  /\ pc' = [pc EXCEPT ![c] = l]
  /\ msg' = [msg EXCEPT ![c] = f]

\* send_message_to_client(client->sockfd, &reply) for a reply of type t, data d.
SendReply(c, t, d) == << send_message_to_client(sockfd[c], Reply(t, d)) >>

\* read_line returned 0 or -1: the loop ends without process_message.
ReadEOF(c) ==
  /\ pc[c] = "read"
  /\ pc' = [pc EXCEPT ![c] = "close"]
  /\ Step(c, NoMsg, << >>)
  /\ UNCHANGED << client_list, session_list, fds, sockfd, id, session, msg, list,
                  prev_session >>

\* Mutants of HasSession: the test always succeeds; the test always fails.
HasSessionAlways(c) == TRUE

HasSessionNever(c) == FALSE

\* strlen(client->session) != 0, the test the cases make of their own client.
HasSession(c) == session[c] # ""

\* ------------------------------------------------------------ case LOGIN

\* The if's condition: is_valid_user and, only when it holds,
\* is_already_logged_in's scan under clients_mutex; the else branch.
login_check(c) == \E f \in ClientFrames :
  /\ Reads(c, f, LOGIN)
  /\ IF is_valid_user(f.source, f.data) /\ ~is_already_logged_in(f.source)
     THEN /\ GoOn(c, f, "login_set")
          /\ Step(c, f, << >>)
          /\ UNCHANGED << list, prev_session >>
     ELSE /\ BackToRead(c)
          /\ Step(c, f, SendReply(c, LO_NAK, "Invalid credentials or already logged in"))
  /\ UNCHANGED << client_list, session_list, fds, sockfd, id, session >>

\* The then branch: the strncpy into client->id, outside any mutex.
login_set(c) ==
  /\ pc[c] = "login_set"
  /\ id' = [id EXCEPT ![c] = msg[c].source]
  /\ BackToRead(c)
  /\ Step(c, msg[c], SendReply(c, LO_ACK, "Login successful"))
  /\ UNCHANGED << client_list, session_list, fds, sockfd, session >>

\* ------------------------------------- remove_session_if_empty, as called

\* The session_id argument: case EXIT passes client->session itself, which it
\* has just cleared; case LEAVE_SESS passes the frame's payload.
RsieArg(c) == IF msg[c].type = EXIT THEN session[c] ELSE msg[c].data

\* The caller's reply once remove_session_if_empty has returned (EXIT's
\* reply.size and reply.data stay as memset left them), and where it goes.
AfterRsie(c) ==
  IF msg[c].type = EXIT
  THEN /\ BreakLoop(c)
       /\ Step(c, msg[c], SendReply(c, EXIT, ""))
  ELSE /\ BackToRead(c)
       /\ Step(c, msg[c], SendReply(c, LEAVE_SESS, "Left session"))

\* session_has_clients under clients_mutex, and the early return.
rsie_has_clients(c) ==
  /\ pc[c] = "rsie"
  /\ IF session_has_clients(RsieArg(c))
     THEN AfterRsie(c)
     ELSE /\ pc' = [pc EXCEPT ![c] = "rsie_remove"]
          /\ Step(c, msg[c], << >>)
          /\ UNCHANGED << msg, list, prev_session >>
  /\ UNCHANGED << client_list, session_list, fds, sockfd, id, session >>

\* The unlinking walk under sessions_mutex.
rsie_remove(c) ==
  /\ pc[c] = "rsie_remove"
  /\ session_list' = RemoveFirst(session_list, RsieArg(c))
  /\ AfterRsie(c)
  /\ UNCHANGED << client_list, fds, sockfd, id, session >>

\* ------------------------------------------------------------- case EXIT
exit_clear(c) == \E f \in ClientFrames :
  /\ Reads(c, f, EXIT)
  /\ IF HasSession(c)
     THEN /\ session' = [session EXCEPT ![c] = ""]
          /\ prev_session' = [prev_session EXCEPT ![c] = session[c]]
          /\ GoOn(c, f, "rsie")
          /\ Step(c, f, << >>)
          /\ list' = list
     ELSE /\ session' = session
          /\ BreakLoop(c)
          /\ Step(c, f, SendReply(c, EXIT, ""))
  /\ UNCHANGED << client_list, session_list, fds, sockfd, id >>

\* ------------------------------------------------------- case LEAVE_SESS
leave_clear(c) == \E f \in ClientFrames :
  /\ Reads(c, f, LEAVE_SESS)
  /\ IF ~HasSession(c)
     THEN /\ session' = session
          /\ BackToRead(c)
          /\ Step(c, f, SendReply(c, LEAVE_SESS, "Not in a session"))
     ELSE /\ session' = [session EXCEPT ![c] = ""]
          /\ prev_session' = [prev_session EXCEPT ![c] = session[c]]
          /\ GoOn(c, f, "rsie")
          /\ Step(c, f, << >>)
          /\ list' = list
  /\ UNCHANGED << client_list, session_list, fds, sockfd, id >>

\* ------------------------------------------------------------- case JOIN

\* find_session under sessions_mutex, and the first branch of the if.
join_find(c) == \E f \in ClientFrames :
  /\ Reads(c, f, JOIN)
  /\ IF ~find_session(f.data)
     THEN /\ BackToRead(c)
          /\ Step(c, f, SendReply(c, JN_NAK, "Session does not exist"))
     ELSE /\ GoOn(c, f, "join_set")
          /\ Step(c, f, << >>)
          /\ UNCHANGED << list, prev_session >>
  /\ UNCHANGED << client_list, session_list, fds, sockfd, id, session >>

\* The else-if and else branches: the test of client->session and the
\* strncpy into it, outside any mutex.
join_set(c) ==
  /\ pc[c] = "join_set"
  /\ IF HasSession(c)
     THEN /\ session' = session
          /\ Step(c, msg[c], SendReply(c, JN_NAK, "Already in a session"))
     ELSE /\ session' = [session EXCEPT ![c] = msg[c].data]
          /\ Step(c, msg[c], SendReply(c, JN_ACK, "Joined session"))
  /\ BackToRead(c)
  /\ UNCHANGED << client_list, session_list, fds, sockfd, id >>

\* --------------------------------------------------------- case NEW_SESS

\* The test of client->session, then find_session under sessions_mutex.
new_sess_find(c) == \E f \in ClientFrames :
  /\ Reads(c, f, NEW_SESS)
  /\ IF HasSession(c)
     THEN /\ BackToRead(c)
          /\ Step(c, f, SendReply(c, NS_ACK, "Already in a session"))
     ELSE IF find_session(f.data)
     THEN /\ BackToRead(c)
          /\ Step(c, f, SendReply(c, NS_ACK, "Session already exists"))
     ELSE /\ GoOn(c, f, "add_session")
          /\ Step(c, f, << >>)
          /\ UNCHANGED << list, prev_session >>
  /\ UNCHANGED << client_list, session_list, fds, sockfd, id, session >>

add_session(c) ==
  /\ pc[c] = "add_session"
  /\ session_list' = << msg[c].data >> \o session_list
  /\ pc' = [pc EXCEPT ![c] = "new_sess_set"]
  /\ Step(c, msg[c], << >>)
  /\ UNCHANGED << client_list, fds, sockfd, id, session, msg, list, prev_session >>

\* The strncpy into client->session, outside any mutex, and the reply.
new_sess_set(c) ==
  /\ pc[c] = "new_sess_set"
  /\ session' = [session EXCEPT ![c] = msg[c].data]
  /\ BackToRead(c)
  /\ Step(c, msg[c], SendReply(c, NS_ACK, "Session created"))
  /\ UNCHANGED << client_list, session_list, fds, sockfd, id >>

\* ---------------------------------------- case MESSAGE, broadcast_message

\* The while loop's test of one node k.
IsRecipient(k, session_id, sender) == session[k] = session_id /\ id[k] # sender

\* The send() calls of the loop under clients_mutex, in list order.
broadcast_message(session_id, m, sender) ==
  LET to == SelectSeq(client_list, LAMBDA k : IsRecipient(k, session_id, sender))
  IN  [i \in 1..Len(to) |-> send_message_to_client(sockfd[to[i]], m)]

message(c) == \E f \in ClientFrames :
  /\ Reads(c, f, MESSAGE)
  /\ IF HasSession(c)
     THEN Step(c, f, broadcast_message(session[c], f, id[c]))
     ELSE Step(c, f, << >>)
  /\ BackToRead(c)
  /\ UNCHANGED << client_list, session_list, fds, sockfd, id, session >>

\* ------------------------------------------------------------ case QUERY
\* Mutant of NameOrNone: the branches of the conditional swapped.
NameOrNoneSwapped(s) == IF s = "" THEN s ELSE "None"

\* strlen(cur->session) ? cur->session : "None"
NameOrNone(s) == IF s = "" THEN "None" ELSE s

\* The snprintf of one client's line and the strcat, for each node in turn.
RECURSIVE ClientLines(_)
ClientLines(cl) ==
  IF cl = << >> THEN ""
  ELSE id[Head(cl)] \o " (session: " \o NameOrNone(session[Head(cl)]) \o "), "
       \o ClientLines(Tail(cl))

\* Mutant of SessionLines: the second loop appends nothing.
SessionLinesNone(sl) == ""

RECURSIVE SessionLines(_)
SessionLines(sl) ==
  IF sl = << >> THEN "" ELSE Head(sl) \o ", " \o SessionLines(Tail(sl))

\* The first loop, under clients_mutex.
query_clients(c) == \E f \in ClientFrames :
  /\ Reads(c, f, QUERY)
  /\ list' = [list EXCEPT ![c] = "Clients: " \o ClientLines(client_list)]
  /\ GoOn(c, f, "query_sessions")
  /\ Step(c, f, << >>)
  /\ UNCHANGED << client_list, session_list, fds, sockfd, id, session, prev_session >>

\* The second loop, under sessions_mutex, and the reply.
query_sessions(c) ==
  /\ pc[c] = "query_sessions"
  /\ BackToRead(c)
  /\ Step(c, msg[c],
          SendReply(c, QU_ACK, list[c] \o " Sessions: " \o SessionLines(session_list)))
  /\ UNCHANGED << client_list, session_list, fds, sockfd, id, session >>

\* ----------------------------------------------------------- the teardown
close(c) ==
  /\ pc[c] = "close"
  /\ fds' = [fds EXCEPT ![sockfd[c]] = 0]
  /\ pc' = [pc EXCEPT ![c] = "remove_client"]
  /\ Step(c, NoMsg, << >>)
  /\ UNCHANGED << client_list, session_list, sockfd, id, session, msg, list,
                  prev_session >>

\* remove_client under clients_mutex, then free(client) and pthread_exit.
remove_client(c) ==
  /\ pc[c] = "remove_client"
  /\ client_list' = RemoveFirst(client_list, c)
  /\ id' = [id EXCEPT ![c] = ""]
  /\ session' = [session EXCEPT ![c] = ""]
  /\ sockfd' = [sockfd EXCEPT ![c] = 0]
  /\ pc' = [pc EXCEPT ![c] = "done"]
  /\ Step(c, NoMsg, << >>)
  /\ UNCHANGED << session_list, fds, msg, list, prev_session >>

Next == \E c \in Conns :
  \/ Accept(c)
  \/ add_client(c)
  \/ ReadEOF(c)
  \/ login_check(c)
  \/ login_set(c)
  \/ exit_clear(c)
  \/ leave_clear(c)
  \/ rsie_has_clients(c)
  \/ rsie_remove(c)
  \/ join_find(c)
  \/ join_set(c)
  \/ new_sess_find(c)
  \/ add_session(c)
  \/ new_sess_set(c)
  \/ message(c)
  \/ query_clients(c)
  \/ query_sessions(c)
  \/ close(c)
  \/ remove_client(c)

Spec == Init /\ [][Next]_vars

\* =================================================== the bytes of a connection
\* Characters are strings of length one, lines and buffers sequences of them.
Pad(n, ch) == [i \in 1..n |-> ch]

DigitChars == << "0", "1", "2", "3", "4", "5", "6", "7", "8", "9" >>

IsDigit(ch) == ch \in Range(DigitChars)

NotDigit(ch) == ~IsDigit(ch)

IsSpace(ch) == ch \in {" ", "\n", "\t"}

NotSpace(ch) == ~IsSpace(ch)

IsColon(ch) == ch = ":"

IsNewline(ch) == ch = "\n"

\* Whether character ch ends a scan of the given kind.
Stop(kind, ch) ==
  CASE kind = "NotSpace"  -> NotSpace(ch)
    [] kind = "NotDigit"  -> NotDigit(ch)
    [] kind = "IsColon"   -> IsColon(ch)
    [] kind = "IsNewline" -> IsNewline(ch)

\* The first position from i on whose character stops the scan, Len(s) + 1
\* if none does.
First(s, i, kind) ==
  CHOOSE k \in i..(Len(s) + 1) :
    /\ k = Len(s) + 1 \/ Stop(kind, s[k])
    /\ \A j \in i..(k - 1) : ~Stop(kind, s[j])

DigitVal(ch) == (CHOOSE k \in 1..10 : DigitChars[k] = ch) - 1

\* The value %u gives a run of digits (the lines here have short ones).
RECURSIVE ToNat(_)
ToNat(ds) ==
  IF ds = << >> THEN 0
  ELSE 10 * ToNat(SubSeq(ds, 1, Len(ds) - 1)) + DigitVal(ds[Len(ds)])

\* read_line on the bytes st (which hold a newline): it stores characters up
\* to a newline, which it consumes, or until total reaches max_len - 1, and
\* then leaves the rest, the newline too, for the next call.
read_line(st) ==
  LET lim == max_len - 1
      k   == First(st, 1, "IsNewline")
  IN  IF k <= lim
      THEN [n |-> k - 1, buffer |-> SubSeq(st, 1, k - 1),
            rest |-> SubSeq(st, k + 1, Len(st)), cut |-> FALSE]
      ELSE [n |-> lim, buffer |-> SubSeq(st, 1, lim),
            rest |-> SubSeq(st, lim + 1, Len(st)), cut |-> TRUE]

\* struct message after memset(&msg, 0, sizeof(msg)).
ZeroMsg == [type |-> 0, size |-> 0, source |-> << >>, data |-> << >>]

\* sscanf(b, "%u:%u:%[^:]:%[^\n]", &type, &size, source, data) into the struct
\* m: the number of fields assigned (EOF, -1, when b ends before the first
\* conversion), the struct with the fields not assigned left as they were,
\* and whether a %[ conversion, which has no width, wrote past source[MAX_NAME]
\* or data[MAX_DATA].
sscanf(b, m) ==
  LET a0 == First(b, 1, "NotSpace")
      a1 == First(b, a0, "NotDigit")
      b0 == First(b, a1 + 1, "NotSpace")
      b1 == First(b, b0, "NotDigit")
      c0 == b1 + 1
      c1 == First(b, c0, "IsColon")
      d0 == c1 + 1
      d1 == First(b, d0, "IsNewline")
      m1 == [m EXCEPT !.type = ToNat(SubSeq(b, a0, a1 - 1))]
      m2 == [m1 EXCEPT !.size = ToNat(SubSeq(b, b0, b1 - 1))]
      m3 == [m2 EXCEPT !.source = SubSeq(b, c0, c1 - 1)]
      m4 == [m3 EXCEPT !.data = SubSeq(b, d0, d1 - 1)]
      Colon(i) == i <= Len(b) /\ b[i] = ":"
      over3 == c1 - c0 >= MAX_NAME
      over4 == over3 \/ d1 - d0 >= MAX_DATA
  IN  IF a0 > Len(b) THEN [fields |-> -1, msg |-> m, overflow |-> FALSE]
      ELSE IF a1 = a0 THEN [fields |-> 0, msg |-> m, overflow |-> FALSE]
      ELSE IF ~Colon(a1) \/ b1 = b0 THEN [fields |-> 1, msg |-> m1, overflow |-> FALSE]
      ELSE IF ~Colon(b1) \/ c1 = c0 THEN [fields |-> 2, msg |-> m2, overflow |-> FALSE]
      ELSE IF ~Colon(c1) \/ d1 = d0 THEN [fields |-> 3, msg |-> m3, overflow |-> over3]
      ELSE [fields |-> 4, msg |-> m4, overflow |-> over4]

\* The lines a client writes here, without their newline: an empty line, lines
\* of one and of two fields, a QUERY, a MESSAGE and an EXIT of the reference
\* client, and three lines longer than max_len - 1: one that is cut before its
\* frame begins, one that is cut after its source field, one whose payload is
\* longer than MAX_DATA.
L_query == << "1", "2", ":", "0", ":", "k", ":" >>

L_message == << "1", "1", ":", "2", ":", "k", ":", "h", "i" >>

L_exit == << "4", ":", "0", ":", "k", ":" >>

WireLines ==
  { << >>,
    << "h", "i" >>,
    << "1", ":", "2" >>,
    L_query,
    L_message,
    L_exit,
    Pad(max_len - 1, "x") \o L_query,
    Pad(max_len - 1 - 6, " ") \o L_message,
    SubSeq(L_message, 1, 7) \o Pad(max_len, "x") }

\* The client writes one more line, newline and all.
line_send ==
  /\ ~shut
  /\ nlines < MaxLines
  /\ \E ln \in WireLines : stream' = stream \o ln \o << "\n" >>
  /\ nlines' = nlines + 1
  /\ UNCHANGED << shut, lpc, buffer, handled, cut >>
  /\ UNCHANGED not_line

\* The client closes its end: recv returns 0 once the bytes are used up.
line_shutdown ==
  /\ ~shut
  /\ shut' = TRUE
  /\ UNCHANGED << stream, lpc, buffer, handled, cut, nlines >>
  /\ UNCHANGED not_line

\* read_line returned 0: the loop's condition n > 0 fails, whether recv met the
\* end of the stream or the line was empty.
LoopEnds(r) ==
  /\ lpc' = "close"
  /\ stream' = r.rest
  /\ buffer' = r.buffer
  /\ cut' = r.cut
  /\ UNCHANGED handled

\* One turn of handle_client's loop: read_line, memset, sscanf, and then
\* continue, or process_message and the test for EXIT.  Where sscanf wrote
\* past the struct the behaviour is undefined: the handler is taken either to
\* die there or to go on with what sscanf stored.
line_read ==
  /\ lpc = "read"
  /\ IF stream = << >>
     THEN /\ shut
          /\ LoopEnds([n |-> 0, buffer |-> buffer, rest |-> << >>, cut |-> FALSE])
     ELSE LET r == read_line(stream)
              s == sscanf(r.buffer, ZeroMsg)
          IN  IF r.n <= 0 THEN LoopEnds(r)
              ELSE /\ stream' = r.rest
                   /\ buffer' = r.buffer
                   /\ cut' = r.cut
                   /\ \/ /\ s.overflow
                         /\ lpc' = "aborted"
                         /\ UNCHANGED handled
                      \/ /\ s.fields < 3
                         /\ ~s.overflow
                         /\ lpc' = "read"
                         /\ UNCHANGED handled
                      \/ /\ s.fields >= 3
                         /\ handled' = Append(handled, s.msg)
                         /\ lpc' = IF s.msg.type = EXIT THEN "close" ELSE "read"
  /\ UNCHANGED << shut, nlines >>
  /\ UNCHANGED not_line

\* close(sockfd), remove_client(client), free(client).
line_teardown ==
  /\ lpc = "close"
  /\ lpc' = "done"
  /\ UNCHANGED << stream, shut, buffer, handled, cut, nlines >>
  /\ UNCHANGED not_line

LineNext == line_send \/ line_shutdown \/ line_read \/ line_teardown

LineSpec == Init /\ [][LineNext]_vars

\* ==================================================================== the codec
\* The decimal digits %u prints.
RECURSIVE Dec(_)
Dec(n) ==
  IF n < 10 THEN << DigitChars[n + 1] >>
  ELSE Dec(n \div 10) \o << DigitChars[(n % 10) + 1] >>

\* snprintf(buffer, sizeof(buffer), "%u:%u:%s:%s\n", type, size, source, data):
\* the bytes send_message_to_client and the client's send_message put on the
\* socket.  The messages here are far shorter than the buffer.
snprintf(m) ==
  Dec(m.type) \o << ":" >> \o Dec(m.size) \o << ":" >> \o m.source \o << ":" >>
  \o m.data \o << "\n" >>

\* The messages given to the encoder: a source is a token of a command line or
\* the word the server signs with, a payload a line of text without its
\* newline or a reply's text; size is set to strlen(data), as every sender
\* does.
Sources == { << "k" >>, << "s", "v" >>, << "k", ":", "k" >> }

Payloads == { << >>, << "h" >>, << "h", "i" >>, << ":" >>, << "h", ":", "i" >> }

Messages ==
  { [type |-> t, size |-> Len(d), source |-> src, data |-> d] :
      t \in {EXIT, MESSAGE, QU_ACK}, src \in Sources, d \in Payloads }

\* What the client's struct message msg, which receive_handler declares and
\* never clears, may hold before sscanf: the zeroes of a fresh stack page, or
\* what an earlier turn of the loop left there.
StackJunk ==
  { ZeroMsg, [type |-> MESSAGE, size |-> 3, source |-> << "k" >>,
              data |-> << "o", "l", "d" >>] }

codec_encode ==
  /\ c_pc = "idle"
  /\ \E m \in Messages :
       /\ c_msg' = m
       /\ c_line' = snprintf(m)
  /\ c_pc' = "sent"
  /\ UNCHANGED << c_srv, c_cli >>
  /\ UNCHANGED not_codec

\* handle_client: read_line, memset(&msg, 0, sizeof(msg)), sscanf.
codec_server_decode ==
  /\ c_pc = "sent"
  /\ c_srv' = sscanf(read_line(c_line).buffer, ZeroMsg)
  /\ c_pc' = "server"
  /\ UNCHANGED << c_msg, c_line, c_cli >>
  /\ UNCHANGED not_codec

\* receive_handler: read_line, struct message msg, sscanf.
codec_client_decode ==
  /\ c_pc = "server"
  /\ \E junk \in StackJunk : c_cli' = sscanf(read_line(c_line).buffer, junk)
  /\ c_pc' = "client"
  /\ UNCHANGED << c_msg, c_line, c_srv >>
  /\ UNCHANGED not_codec

\* On to the next message.
codec_done ==
  /\ c_pc = "client"
  /\ c_pc' = "idle"
  /\ UNCHANGED << c_msg, c_line, c_srv, c_cli >>
  /\ UNCHANGED not_codec

CodecNext == codec_encode \/ codec_server_decode \/ codec_client_decode \/ codec_done

CodecSpec == Init /\ [][CodecNext]_vars

\* =================================================================== the client
\* A frame on the connection.  A reply carries, for the record, the session
\* name of the request it answers.
Wire(t, d, name) == [type |-> t, data |-> d, name |-> name]

Prompt == [at |-> "prompt", session_id |-> ""]

\* main reads a command line at its prompt.
Typed == cmd.at = "prompt" /\ ncmds < MaxCmds

\* /login: handle_login, which neither looks at loggedIn nor touches
\* current_session and pending_session; connect succeeds, the LOGIN is sent,
\* loggedIn is set and a receive loop is started.
cmd_login ==
  /\ Typed
  /\ nlogins < MaxLogins
  /\ nlogins' = nlogins + 1
  /\ ncmds' = ncmds + 1
  /\ cl_sockfd' = nlogins + 1
  /\ outbox' = << Wire(LOGIN, "12345", "") >>
  /\ inbox' = << >>
  /\ srv_open' = TRUE
  /\ srv_session' = ""
  /\ loggedIn' = 1
  /\ recv_thread' = [recv_thread EXCEPT ![nlogins + 1] = [at |-> "read", msg |-> NoMsg]]
  /\ UNCHANGED << current_session, pending_session, cmd >>
  /\ UNCHANGED not_client

\* /logout, first half: the EXIT is sent, loggedIn cleared, the socket closed.
cmd_logout ==
  /\ Typed
  /\ loggedIn = 1
  /\ ncmds' = ncmds + 1
  /\ outbox' = Append(outbox, Wire(EXIT, "", ""))
  /\ loggedIn' = 0
  /\ cl_sockfd' = -1
  /\ cmd' = [at |-> "logout_clear", session_id |-> ""]
  /\ UNCHANGED << current_session, pending_session, recv_thread, inbox, srv_open,
                  srv_session, nlogins >>
  /\ UNCHANGED not_client

\* /logout, second half: the two memsets.
cmd_logout_clear ==
  /\ cmd.at = "logout_clear"
  /\ current_session' = ""
  /\ pending_session' = ""
  /\ cmd' = Prompt
  /\ UNCHANGED << cl_sockfd, loggedIn, recv_thread, outbox, inbox, srv_open, srv_session,
                  ncmds, nlogins >>
  /\ UNCHANGED not_client

\* /joinsession, first half: main's tests of loggedIn and current_session,
\* then the send_message of handle_join_session.
cmd_join ==
  /\ Typed
  /\ loggedIn = 1
  /\ current_session = ""
  /\ ncmds' = ncmds + 1
  /\ \E s \in SessionNames :
       /\ outbox' = Append(outbox, Wire(JOIN, s, ""))
       /\ cmd' = [at |-> "join_pending", session_id |-> s]
  /\ UNCHANGED << cl_sockfd, loggedIn, current_session, pending_session, recv_thread,
                  inbox, srv_open, srv_session, nlogins >>
  /\ UNCHANGED not_client

\* /createsession, first half: the same tests, then the send_message of
\* handle_create_session.
cmd_create ==
  /\ Typed
  /\ loggedIn = 1
  /\ current_session = ""
  /\ ncmds' = ncmds + 1
  /\ \E s \in SessionNames :
       /\ outbox' = Append(outbox, Wire(NEW_SESS, s, ""))
       /\ cmd' = [at |-> "create_pending", session_id |-> s]
  /\ UNCHANGED << cl_sockfd, loggedIn, current_session, pending_session, recv_thread,
                  inbox, srv_open, srv_session, nlogins >>
  /\ UNCHANGED not_client

\* Second half: strncpy(pending_session, session_id, MAX_NAME).
cmd_set_pending ==
  /\ cmd.at \in {"join_pending", "create_pending"}
  /\ pending_session' = cmd.session_id
  /\ cmd' = Prompt
  /\ UNCHANGED << cl_sockfd, loggedIn, current_session, recv_thread, outbox, inbox,
                  srv_open, srv_session, ncmds, nlogins >>
  /\ UNCHANGED not_client

\* /leavesession: handle_leave_session.
cmd_leave ==
  /\ Typed
  /\ loggedIn = 1
  /\ current_session # ""
  /\ ncmds' = ncmds + 1
  /\ outbox' = Append(outbox, Wire(LEAVE_SESS, "", ""))
  /\ current_session' = ""
  /\ UNCHANGED << cl_sockfd, loggedIn, pending_session, cmd, recv_thread, inbox, srv_open,
                  srv_session, nlogins >>
  /\ UNCHANGED not_client

\* The server's handler deals with the next frame of this connection, as
\* process_message does for a client whose session is srv_session; whether
\* the session named exists is up to the other clients.
server_answers ==
  /\ srv_open
  /\ outbox # << >>
  /\ LET f == Head(outbox)
         free == srv_session = ""
     IN  /\ outbox' = Tail(outbox)
         /\ \E r \in
               IF f.type = LOGIN
                 THEN { Wire(LO_ACK, "Login successful", ""),
                        Wire(LO_NAK, "Invalid credentials or already logged in", "") }
               ELSE IF f.type = JOIN
                 THEN { Wire(JN_NAK, "Session does not exist", f.data) }
                      \cup (IF free THEN { Wire(JN_ACK, "Joined session", f.data) }
                            ELSE { Wire(JN_NAK, "Already in a session", f.data) })
               ELSE IF f.type = NEW_SESS
                 THEN IF free THEN { Wire(NS_ACK, "Session created", f.data),
                                     Wire(NS_ACK, "Session already exists", f.data) }
                      ELSE { Wire(NS_ACK, "Already in a session", f.data) }
               ELSE IF f.type = LEAVE_SESS
                 THEN { Wire(LEAVE_SESS,
                             IF free THEN "Not in a session" ELSE "Left session", "") }
               ELSE { Wire(EXIT, "", "") } :
              /\ inbox' = Append(inbox, r)
              /\ srv_session' =
                   IF r.type = JN_ACK \/ (r.type = NS_ACK /\ r.data = "Session created")
                   THEN f.data
                   ELSE IF f.type \in {LEAVE_SESS, EXIT} THEN "" ELSE srv_session
         /\ srv_open' = (f.type # EXIT)
  /\ UNCHANGED << cl_sockfd, loggedIn, current_session, pending_session, cmd,
                  recv_thread, ncmds, nlogins >>
  /\ UNCHANGED not_client

\* The server's end of the connection goes away (the server is stopped, or
\* the network fails).
server_drops ==
  /\ srv_open
  /\ srv_open' = FALSE
  /\ UNCHANGED << cl_sockfd, loggedIn, current_session, pending_session, cmd,
                  recv_thread, outbox, inbox, srv_session, ncmds, nlogins >>
  /\ UNCHANGED not_client

\* A receive loop's read_line on the global sockfd returns a frame, which
\* sscanf decodes into the loop's msg.
recv_read(t) ==
  /\ recv_thread[t].at = "read"
  /\ cl_sockfd # -1
  /\ inbox # << >>
  /\ recv_thread' = [recv_thread EXCEPT ![t] = [at |-> "switch", msg |-> Head(inbox)]]
  /\ inbox' = Tail(inbox)
  /\ UNCHANGED << cl_sockfd, loggedIn, current_session, pending_session, cmd, outbox,
                  srv_open, srv_session, ncmds, nlogins >>
  /\ UNCHANGED not_client

\* read_line returns 0 or -1 (the server's end is closed and nothing is left
\* to read, or sockfd is -1): "Disconnected", loggedIn = 0, and the loop ends.
recv_disconnected(t) ==
  /\ recv_thread[t].at = "read"
  /\ cl_sockfd = -1 \/ (inbox = << >> /\ ~srv_open)
  /\ loggedIn' = 0
  /\ recv_thread' = [recv_thread EXCEPT ![t] = [at |-> "ended", msg |-> NoMsg]]
  /\ UNCHANGED << cl_sockfd, current_session, pending_session, cmd, outbox, inbox,
                  srv_open, srv_session, ncmds, nlogins >>
  /\ UNCHANGED not_client

\* The switch on msg.type.
recv_switch(t) ==
  /\ recv_thread[t].at = "switch"
  /\ LET m == recv_thread[t].msg
         promote == m.type = JN_ACK \/ (m.type = NS_ACK /\ m.data = "Session created")
     IN  /\ current_session' = IF promote THEN pending_session ELSE current_session
         /\ pending_session' = IF m.type \in {JN_ACK, JN_NAK, NS_ACK} THEN ""
                               ELSE pending_session
  /\ recv_thread' = [recv_thread EXCEPT ![t].at = "read"]
  /\ UNCHANGED << cl_sockfd, loggedIn, cmd, outbox, inbox, srv_open, srv_session, ncmds,
                  nlogins >>
  /\ UNCHANGED not_client

ClientNext ==
  \/ cmd_login
  \/ cmd_logout
  \/ cmd_logout_clear
  \/ cmd_join
  \/ cmd_create
  \/ cmd_set_pending
  \/ cmd_leave
  \/ server_answers
  \/ server_drops
  \/ \E t \in 1..MaxLogins : recv_read(t) \/ recv_disconnected(t) \/ recv_switch(t)

ClientSpec == Init /\ [][ClientNext]_vars

\* ------------------------------------------- teardown beside broadcasts
\* Each handler thread from its add_client to its pthread_exit. The lock
\* and unlock of add_client and of remove_client enclose no blocking call
\* and are one step each; broadcast_message keeps clients_mutex over its
\* send() calls, and a send() returns only when the frame fits in the
\* send buffer toward the peer.

\* handle_client's add_client(client).
td_add_client(c) ==
  /\ td_pc[c] = "add_client"
  /\ clients_mutex = 0
  /\ td_list' = << c >> \o td_list
  /\ td_pc' = [td_pc EXCEPT ![c] = "read"]
  /\ UNCHANGED << clients_mutex, td_session, td_open, td_sndbuf, td_cur, nbroadcasts >>
  /\ UNCHANGED not_teardown

\* A JOIN or NEW_SESS that is accepted: strncpy(client->session, ...).
td_join(c) ==
  /\ td_pc[c] = "read"
  /\ td_session[c] = ""
  /\ td_session' = [td_session EXCEPT ![c] = "team"]
  /\ UNCHANGED << td_pc, clients_mutex, td_list, td_open, td_sndbuf, td_cur, nbroadcasts >>
  /\ UNCHANGED not_teardown

\* A MESSAGE read by a handler whose client is in a session.
td_read_message(c) ==
  /\ td_pc[c] = "read"
  /\ td_session[c] # ""
  /\ nbroadcasts < MaxBroadcasts
  /\ nbroadcasts' = nbroadcasts + 1
  /\ td_pc' = [td_pc EXCEPT ![c] = "broadcast"]
  /\ UNCHANGED << clients_mutex, td_list, td_session, td_open, td_sndbuf, td_cur >>
  /\ UNCHANGED not_teardown

\* broadcast_message: pthread_mutex_lock and cur = client_list.
td_broadcast_lock(c) ==
  /\ td_pc[c] = "broadcast"
  /\ clients_mutex = 0
  /\ clients_mutex' = c
  /\ td_cur' = [td_cur EXCEPT ![c] = td_list]
  /\ td_pc' = [td_pc EXCEPT ![c] = "send"]
  /\ UNCHANGED << td_list, td_session, td_open, td_sndbuf, nbroadcasts >>
  /\ UNCHANGED not_teardown

\* One turn of broadcast_message's loop. The send() to a member of the
\* sender's session returns at once with an error on a closed descriptor,
\* and otherwise when the send buffer has room for the frame.
td_broadcast_send(c) ==
  /\ td_pc[c] = "send"
  /\ td_cur[c] # << >>
  /\ LET k == Head(td_cur[c])
     IN  IF td_session[k] = td_session[c] /\ k # c /\ td_open[k]
         THEN /\ td_sndbuf[k] < SndBuf
              /\ td_sndbuf' = [td_sndbuf EXCEPT ![k] = @ + 1]
         ELSE td_sndbuf' = td_sndbuf
  /\ td_cur' = [td_cur EXCEPT ![c] = Tail(@)]
  /\ UNCHANGED << td_pc, clients_mutex, td_list, td_session, td_open, nbroadcasts >>
  /\ UNCHANGED not_teardown

\* broadcast_message: the loop is over, pthread_mutex_unlock.
td_broadcast_unlock(c) ==
  /\ td_pc[c] = "send"
  /\ td_cur[c] = << >>
  /\ clients_mutex' = 0
  /\ td_pc' = [td_pc EXCEPT ![c] = "read"]
  /\ UNCHANGED << td_list, td_session, td_open, td_sndbuf, td_cur, nbroadcasts >>
  /\ UNCHANGED not_teardown

\* The read loop ends: read_line returned 0 or less, or the frame was an
\* EXIT, whose case clears client->session first.
td_loop_ends(c) ==
  /\ td_pc[c] = "read"
  /\ \E exit \in BOOLEAN :
       td_session' = [td_session EXCEPT ![c] = IF exit THEN "" ELSE @]
  /\ td_pc' = [td_pc EXCEPT ![c] = "close"]
  /\ UNCHANGED << clients_mutex, td_list, td_open, td_sndbuf, td_cur, nbroadcasts >>
  /\ UNCHANGED not_teardown

\* close(sockfd) after the loop.
td_close(c) ==
  /\ td_pc[c] = "close"
  /\ td_open' = [td_open EXCEPT ![c] = FALSE]
  /\ td_pc' = [td_pc EXCEPT ![c] = "remove_client"]
  /\ UNCHANGED << clients_mutex, td_list, td_session, td_sndbuf, td_cur, nbroadcasts >>
  /\ UNCHANGED not_teardown

\* remove_client(client).
td_remove_client(c) ==
  /\ td_pc[c] = "remove_client"
  /\ clients_mutex = 0
  /\ td_list' = RemoveFirst(td_list, c)
  /\ td_pc' = [td_pc EXCEPT ![c] = "free"]
  /\ UNCHANGED << clients_mutex, td_session, td_open, td_sndbuf, td_cur, nbroadcasts >>
  /\ UNCHANGED not_teardown

\* free(client) and pthread_exit.
td_free(c) ==
  /\ td_pc[c] = "free"
  /\ td_pc' = [td_pc EXCEPT ![c] = "done"]
  /\ UNCHANGED << clients_mutex, td_list, td_session, td_open, td_sndbuf, td_cur,
                  nbroadcasts >>
  /\ UNCHANGED not_teardown

\* The peer of a connection reads a frame, which makes room in the send
\* buffer toward it. The server has no say in when a peer reads.
td_peer_reads(k) ==
  /\ td_sndbuf[k] > 0
  /\ td_sndbuf' = [td_sndbuf EXCEPT ![k] = @ - 1]
  /\ UNCHANGED << td_pc, clients_mutex, td_list, td_session, td_open, td_cur,
                  nbroadcasts >>
  /\ UNCHANGED not_teardown

TeardownNext ==
  \E c \in TConns :
    \/ td_add_client(c)
    \/ td_join(c)
    \/ td_read_message(c)
    \/ td_broadcast_lock(c)
    \/ td_broadcast_send(c)
    \/ td_broadcast_unlock(c)
    \/ td_loop_ends(c)
    \/ td_close(c)
    \/ td_remove_client(c)
    \/ td_free(c)
    \/ td_peer_reads(c)

\* Fair scheduling of the server's threads: a thread that can run does, and
\* a thread waiting for clients_mutex gets it if it is free again and again.
\* What arrives on a connection, and when a peer reads, is not the server's.
TeardownFair ==
  \A c \in TConns :
    /\ SF_vars(td_add_client(c))
    /\ SF_vars(td_broadcast_lock(c))
    /\ WF_vars(td_broadcast_send(c))
    /\ WF_vars(td_broadcast_unlock(c))
    /\ WF_vars(td_close(c))
    /\ SF_vars(td_remove_client(c))
    /\ WF_vars(td_free(c))

TeardownSpec == Init /\ [][TeardownNext]_vars /\ TeardownFair

\* ------------------------------------------------- the two mutexes
\* The pthread_mutex_lock and pthread_mutex_unlock calls of the server, in
\* the order each function and each case of process_message makes them.

Lock(m) == [call |-> "lock", mutex |-> m]

Unlock(m) == [call |-> "unlock", mutex |-> m]

\* is_already_logged_in, add_client, remove_client, session_has_clients and
\* broadcast_message: one section under clients_mutex.
ClientsSection == << Lock("clients_mutex"), Unlock("clients_mutex") >>

\* find_session and add_session: one section under sessions_mutex.
SessionsSection == << Lock("sessions_mutex"), Unlock("sessions_mutex") >>

\* remove_session_if_empty: session_has_clients and the return if it found a
\* member, otherwise the walk of session_list under sessions_mutex.
remove_session_if_empty_calls == { ClientsSection, ClientsSection \o SessionsSection }

\* case LOGIN: is_valid_user takes no lock; is_already_logged_in follows if
\* the credentials match.
LOGIN_calls == { << >>, ClientsSection }

\* case EXIT and case LEAVE_SESS: nothing without a session.
EXIT_calls == { << >> } \cup remove_session_if_empty_calls

\* case JOIN: find_session.
JOIN_calls == { SessionsSection }

\* case NEW_SESS: nothing in a session, else find_session, and add_session if
\* it found none.
NEW_SESS_calls == { << >>, SessionsSection, SessionsSection \o SessionsSection }

\* case MESSAGE: broadcast_message if the client is in a session.
MESSAGE_calls == { << >>, ClientsSection }

\* case QUERY with the first unlock moved behind the second section.
QUERY_calls_nested ==
  << Lock("clients_mutex"), Lock("sessions_mutex"), Unlock("sessions_mutex"),
     Unlock("clients_mutex") >>

\* case QUERY: the client list under clients_mutex, then the session list
\* under sessions_mutex.
QUERY_calls == ClientsSection \o SessionsSection

\* Everything a handler thread does between two reads: add_client at its
\* start, one case of process_message per frame, remove_client at its end.
HandlerCalls ==
  { ClientsSection, QUERY_calls }
    \cup LOGIN_calls \cup EXIT_calls \cup JOIN_calls \cup NEW_SESS_calls \cup MESSAGE_calls

\* Thread t starts on its next operation.
lk_begin(t) ==
  /\ lk_todo[t] = << >>
  /\ nops < MaxOps
  /\ nops' = nops + 1
  /\ \E calls \in HandlerCalls : lk_todo' = [lk_todo EXCEPT ![t] = calls]
  /\ UNCHANGED lk_holder
  /\ UNCHANGED not_lock

\* pthread_mutex_lock returns to thread t.
lk_lock(t) ==
  /\ lk_todo[t] # << >>
  /\ Head(lk_todo[t]).call = "lock"
  /\ lk_holder[Head(lk_todo[t]).mutex] = 0
  /\ lk_holder' = [lk_holder EXCEPT ![Head(lk_todo[t]).mutex] = t]
  /\ lk_todo' = [lk_todo EXCEPT ![t] = Tail(@)]
  /\ UNCHANGED nops
  /\ UNCHANGED not_lock

\* pthread_mutex_unlock by thread t.
lk_unlock(t) ==
  /\ lk_todo[t] # << >>
  /\ Head(lk_todo[t]).call = "unlock"
  /\ lk_holder' = [lk_holder EXCEPT ![Head(lk_todo[t]).mutex] = 0]
  /\ lk_todo' = [lk_todo EXCEPT ![t] = Tail(@)]
  /\ UNCHANGED nops
  /\ UNCHANGED not_lock

LockNext == \E t \in LThreads : lk_begin(t) \/ lk_lock(t) \/ lk_unlock(t)

LockSpec == Init /\ [][LockNext]_vars

\* ------------------------------------------------ the order of broadcasts
\* The connections are registered (client_list holds 4, 3, 2, 1, the order
\* add_client leaves) and logged in under different identifiers. A MESSAGE
\* frame is known by its sender and by its number among all frames written.

\* client_list, head first.
bc_list == << 4, 3, 2, 1 >>

\* Mutant of MutexFree: pthread_mutex_lock never waits.
MutexFreeAlways == TRUE

\* pthread_mutex_lock(&clients_mutex) returns when no thread holds the mutex.
MutexFree == bc_mutex = 0

\* A JOIN or NEW_SESS that is accepted: strncpy(client->session, ...).
bc_join(c) ==
  /\ bc_pc[c] = "read"
  /\ bc_in[c] = << >>
  /\ bc_session[c] = ""
  /\ bc_session' = [bc_session EXCEPT ![c] = "team"]
  /\ UNCHANGED << bc_in, bc_pc, bc_msg, bc_cur, bc_mutex, bc_out, nmessages >>
  /\ UNCHANGED not_broadcast

\* The client of connection c writes a MESSAGE frame (send_message).
bc_client_sends(c) ==
  /\ nmessages < MaxMessages
  /\ nmessages' = nmessages + 1
  /\ bc_in' = [bc_in EXCEPT ![c] = Append(@, [from |-> c, seq |-> nmessages + 1])]
  /\ UNCHANGED << bc_session, bc_pc, bc_msg, bc_cur, bc_mutex, bc_out >>
  /\ UNCHANGED not_broadcast

\* handle_client: read_line returns the next frame of the connection;
\* case MESSAGE goes on to broadcast_message only for a client in a session.
bc_read(c) ==
  /\ bc_pc[c] = "read"
  /\ bc_in[c] # << >>
  /\ bc_in' = [bc_in EXCEPT ![c] = Tail(@)]
  /\ bc_msg' = [bc_msg EXCEPT ![c] = Head(bc_in[c])]
  /\ bc_pc' = [bc_pc EXCEPT ![c] = IF bc_session[c] # "" THEN "broadcast" ELSE "read"]
  /\ UNCHANGED << bc_session, bc_cur, bc_mutex, bc_out, nmessages >>
  /\ UNCHANGED not_broadcast

\* broadcast_message: pthread_mutex_lock and cur = client_list.
bc_lock(c) ==
  /\ bc_pc[c] = "broadcast"
  /\ MutexFree
  /\ bc_mutex' = c
  /\ bc_cur' = [bc_cur EXCEPT ![c] = bc_list]
  /\ bc_pc' = [bc_pc EXCEPT ![c] = "send"]
  /\ UNCHANGED << bc_session, bc_in, bc_msg, bc_out, nmessages >>
  /\ UNCHANGED not_broadcast

\* One turn of broadcast_message's loop: the filter, the send(), cur->next.
bc_send(c) ==
  /\ bc_pc[c] = "send"
  /\ bc_cur[c] # << >>
  /\ LET k == Head(bc_cur[c])
     IN  bc_out' = IF bc_session[k] = bc_session[c] /\ k # c
                   THEN [bc_out EXCEPT ![k] = Append(@, bc_msg[c])]
                   ELSE bc_out
  /\ bc_cur' = [bc_cur EXCEPT ![c] = Tail(@)]
  /\ UNCHANGED << bc_session, bc_in, bc_pc, bc_msg, bc_mutex, nmessages >>
  /\ UNCHANGED not_broadcast

\* broadcast_message: the loop is over, pthread_mutex_unlock; back to read_line.
bc_unlock(c) ==
  /\ bc_pc[c] = "send"
  /\ bc_cur[c] = << >>
  /\ bc_mutex' = 0
  /\ bc_pc' = [bc_pc EXCEPT ![c] = "read"]
  /\ UNCHANGED << bc_session, bc_in, bc_msg, bc_cur, bc_out, nmessages >>
  /\ UNCHANGED not_broadcast

BroadcastNext ==
  \E c \in BConns :
    \/ bc_join(c)
    \/ bc_client_sends(c)
    \/ bc_read(c)
    \/ bc_lock(c)
    \/ bc_send(c)
    \/ bc_unlock(c)

BroadcastSpec == Init /\ [][BroadcastNext]_vars

\* =========================================================== the file transfer
\* The reply "no" of the receiver's handshake loop, among the ACK numbers.
NoReply == 0

\* The sender's for loop goes to its next turn, or ends: fclose, "File
\* transfer completed", close.
NextFragment ==
  /\ frag_no' = frag_no + 1
  /\ attempts' = 0
  /\ tx_pc' = IF frag_no + 1 <= FileFrags THEN "sendto" ELSE "done"

\* The while loop's test succeeds: sendto of the fragment, then select.
tx_sendto ==
  /\ tx_pc = "sendto"
  /\ attempts < MAX_RETRIES
  /\ datagrams' = datagrams \cup {frag_no}
  /\ tx_pc' = "select"
  /\ UNCHANGED << frag_no, attempts, replies, rx_pc, total_frag, fp, written, ndelivered >>
  /\ UNCHANGED not_transfer

\* The while loop's test fails: the loop is left without a break.
tx_retries_over ==
  /\ tx_pc = "sendto"
  /\ attempts >= MAX_RETRIES
  /\ NextFragment
  /\ UNCHANGED << datagrams, replies, rx_pc, total_frag, fp, written, ndelivered >>
  /\ UNCHANGED not_transfer

\* select returns 0 after two seconds: attempts++, if (0), continue.
tx_timeout ==
  /\ tx_pc = "select"
  /\ attempts' = attempts + 1
  /\ tx_pc' = "sendto"
  /\ UNCHANGED << frag_no, datagrams, replies, rx_pc, total_frag, fp, written,
                  ndelivered >>
  /\ UNCHANGED not_transfer

\* select returns 1 and recvfrom a datagram: the break on "ACK:" with
\* ack_no == frag_no, otherwise the next turn of the while loop.
tx_recvfrom ==
  /\ tx_pc = "select"
  /\ \E a \in replies :
       /\ replies' = replies \ {a}
       /\ IF a # NoReply /\ a = frag_no
          THEN NextFragment
          ELSE /\ tx_pc' = "sendto"
               /\ UNCHANGED << frag_no, attempts >>
  /\ UNCHANGED << datagrams, rx_pc, total_frag, fp, written, ndelivered >>
  /\ UNCHANGED not_transfer

\* The network hands the receiver fragment k: the header is well-formed and
\* data_len equals f_size, as the sender built it.
Delivered(k) ==
  /\ k \in datagrams
  /\ ndelivered < MaxDelivered
  /\ ndelivered' = ndelivered + 1
  /\ datagrams' = datagrams \ {k}

\* The receiver's fragment loop: recvfrom, then "Simulate packet loss".
rx_simulated_loss ==
  /\ rx_pc = "fragments"
  /\ \E k \in datagrams : Delivered(k)
  /\ UNCHANGED << tx_pc, frag_no, attempts, replies, rx_pc, total_frag, fp, written >>
  /\ UNCHANGED not_transfer

\* The receiver's fragment loop for a fragment it does not drop: fopen "wb"
\* on fragment 1, fwrite if fp, the ACK, and the break on the last fragment.
rx_fragment ==
  /\ rx_pc = "fragments"
  /\ \E k \in datagrams :
       /\ Delivered(k)
       /\ total_frag' = IF k = 1 THEN FileFrags ELSE total_frag
       /\ fp' = (k = 1 \/ fp)
       /\ written' = IF k = 1 THEN << k >>
                     ELSE IF fp THEN Append(written, k) ELSE written
       /\ replies' = replies \cup {k}
       /\ rx_pc' = IF k = (IF k = 1 THEN FileFrags ELSE total_frag)
                   THEN "handshake" ELSE "fragments"
  /\ UNCHANGED << tx_pc, frag_no, attempts >>
  /\ UNCHANGED not_transfer

\* The receiver's outer loop: a datagram that is not "ftp" is answered "no".
rx_handshake ==
  /\ rx_pc = "handshake"
  /\ \E k \in datagrams : Delivered(k)
  /\ replies' = replies \cup {NoReply}
  /\ UNCHANGED << tx_pc, frag_no, attempts, rx_pc, total_frag, fp, written >>
  /\ UNCHANGED not_transfer

\* The network loses a datagram.
net_loses ==
  /\ \/ \E k \in datagrams : datagrams' = datagrams \ {k} /\ replies' = replies
     \/ \E a \in replies : replies' = replies \ {a} /\ datagrams' = datagrams
  /\ UNCHANGED << tx_pc, frag_no, attempts, rx_pc, total_frag, fp, written, ndelivered >>
  /\ UNCHANGED not_transfer

TransferNext ==
  \/ tx_sendto
  \/ tx_retries_over
  \/ tx_timeout
  \/ tx_recvfrom
  \/ rx_simulated_loss
  \/ rx_fragment
  \/ rx_handshake
  \/ net_loses

TransferSpec == Init /\ [][TransferNext]_vars

\* ================================================================ claims
Registered == Range(client_list)

Quiescent == \A c \in Conns : Idle(c)

\* The only send() of the last step is the reply of type t and data d to c.
Answered(w, c, t, d) ==
  w = << [fd |-> sockfd[c], to |-> c, frame |-> Reply(t, d)] >>

\* C1: in every reachable state no two registered connections carry the same
\* non-empty identifier.
C1_UniqueIdentifiers ==
  \A a, b \in Registered : (a # b /\ id[a] # "") => id[a] # id[b]

\* C2: when a client finishes a LEAVE_SESS with an empty payload and the
\* session it left has no member any more, that session is no longer in the
\* session registry.
C2_SoleMemberLeaveRemovesSession ==
  [][\A c \in Conns :
       ( /\ rx'.conn = c
         /\ rx'.frame.type = LEAVE_SESS
         /\ rx'.frame.data = ""
         /\ pc[c] \in {"rsie", "rsie_remove"}
         /\ pc'[c] = "read"
         /\ ~\E k \in Range(client_list') : session'[k] = prev_session[c] )
       => prev_session[c] \notin Range(session_list')]_vars

\* C3: a MESSAGE from a connection in session S is written to the descriptor
\* of every other registered connection whose current session is S, whatever
\* identifier it carries.
C3_BroadcastReachesEveryOtherMember ==
  [][\A c \in Conns :
       (rx'.conn = c /\ rx'.frame.type = MESSAGE /\ pc[c] = "read" /\ session[c] # "")
       => \A k \in Registered \ {c} :
            session[k] = session[c]
            => \E i \in 1..Len(wire') :
                 wire'[i].fd = sockfd[k] /\ wire'[i].frame = rx'.frame]_vars

\* C4: no send() made for a MESSAGE from X in session S reaches X's own
\* connection or a connection whose current session is not S.
C4_NoEchoNoForeignSession ==
  [][\A c \in Conns :
       (rx'.conn = c /\ rx'.frame.type = MESSAGE /\ pc[c] = "read")
       => \A i \in 1..Len(wire') :
            /\ wire'[i].to # c
            /\ wire'[i].to # 0 => session[wire'[i].to] = session[c]]_vars

IsRejection(t, fr) ==
  \/ t = JOIN /\ fr.type = JN_NAK
  \/ t = NEW_SESS /\ fr.type = NS_ACK /\ fr.data # "Session created"

\* C5: every step the server takes on a JOIN or NEW_SESS from a client whose
\* current session is non-empty leaves every client's session and both
\* registries as they are, sends nothing but a rejection to that client, and
\* the step that ends the case sends one.
C5_InSessionJoinOrCreateRejected ==
  [][\A c \in Conns :
       (rx'.conn = c /\ rx'.frame.type \in {JOIN, NEW_SESS} /\ session[c] # "")
       => /\ session' = session
          /\ session_list' = session_list
          /\ client_list' = client_list
          /\ \A i \in 1..Len(wire') :
               wire'[i].to = c /\ IsRejection(rx'.frame.type, wire'[i].frame)
          /\ pc'[c] = "read" => Len(wire') = 1]_vars

\* Witness of C5: a client in "team" has just been refused NEW_SESS "lab",
\* and "lab" does not exist.
C5_Witness ==
  \E c \in Conns :
    /\ rx = [conn |-> c, frame |-> Frame(NEW_SESS, "ken", "lab")]
    /\ session[c] = "team"
    /\ Answered(wire, c, NS_ACK, "Already in a session")
    /\ "lab" \notin Range(session_list)

\* C6: in every reachable state every registered client's non-empty current
\* session is in the session registry.
C6_CurrentSessionIsActive ==
  \A k \in Registered : session[k] # "" => session[k] \in Range(session_list)

\* C7: when the server finishes the EXIT of a client that was the only member
\* of its session, the client's session is cleared, the session is out of the
\* session registry and the EXIT is echoed.
C7_ExitOfSoleMemberRemovesSession ==
  [][\A c \in Conns :
       ( /\ rx'.conn = c
         /\ rx'.frame.type = EXIT
         /\ pc[c] \in {"rsie", "rsie_remove"}
         /\ pc'[c] = "close"
         /\ ~\E k \in Range(client_list') \ {c} : session'[k] = prev_session[c] )
       => /\ session'[c] = ""
          /\ prev_session[c] \notin Range(session_list')
          /\ \E i \in 1..Len(wire') : wire'[i].to = c /\ wire'[i].frame.type = EXIT]_vars

\* C8: in every quiescent state every session of the session registry has a
\* registered member.
C8_NoEmptySessionWhenQuiescent ==
  Quiescent => \A s \in Range(session_list) : \E k \in Registered : session[k] = s

\* C9 as stated: in the scenario, once A's LEAVE_SESS is dealt with "team" is
\* out of the session registry, and B's QUERY lists B with session None.
C9_TeamRemovedAfterALeaves ==
  /\ (scen >= 7 /\ Idle(1)) => "team" \notin Range(session_list)
  /\ (scen = 8 /\ Idle(2))
       => \/ Answered(wire, 2, QU_ACK,
                      "Clients: andy (session: None), ken (session: None),  Sessions: ")
          \/ Answered(wire, 2, QU_ACK,
                      "Clients: ken (session: None), andy (session: None),  Sessions: ")

\* C9 as amended: in the scenario, once A's LEAVE_SESS is dealt with "team" is
\* still in the session registry with B as its member, and B's QUERY lists B
\* with session team, A with session None, and the session team, the two
\* clients in the order of the client registry.
C9_TeamKeptWhileBIsMember ==
  /\ (scen >= 7 /\ Idle(1))
       => /\ session_list = << "team" >>
          /\ session[1] = ""
          /\ session[2] = "team"
  /\ (scen = 8 /\ Idle(2))
       => \/ Answered(wire, 2, QU_ACK,
                      "Clients: andy (session: team), ken (session: None),  Sessions: team, ")
          \/ Answered(wire, 2, QU_ACK,
                      "Clients: ken (session: None), andy (session: team),  Sessions: team, ")

\* Witness of C9: the scenario has run to its end, B's QUERY is answered.
C9_Witness == scen = 8 /\ Idle(2) /\ rx.conn = 2 /\ rx.frame.type = QUERY

\* C10: a LEAVE_SESS from a client with no current session is answered in the
\* same step with LEAVE_SESS "Not in a session" and changes neither registry
\* nor any client's identifier or session; and every LEAVE_SESS, once dealt
\* with, leaves the client with no current session, so that a second one in
\* a row is such a LEAVE_SESS.
C10_LeaveWithoutSession ==
  [][\A c \in Conns :
       (rx'.conn = c /\ rx'.frame.type = LEAVE_SESS)
       => /\ (pc[c] = "read" /\ session[c] = "")
               => /\ Answered(wire', c, LEAVE_SESS, "Not in a session")
                  /\ pc'[c] = "read"
                  /\ << client_list, session_list, id, session >>' =
                       << client_list, session_list, id, session >>
          /\ pc'[c] = "read" => session'[c] = ""]_vars

\* Witness of C10: a client that created a session and left it has just had
\* a further LEAVE_SESS answered "Not in a session".
C10_Witness ==
  \E c \in Conns :
    /\ rx.conn = c
    /\ rx.frame.type = LEAVE_SESS
    /\ Answered(wire, c, LEAVE_SESS, "Not in a session")
    /\ Registered = {c}
    /\ session_list # << >>
    /\ nframes = 3

\* The pair is one of the credential table.
InTable(uid, password) ==
  \E i \in DOMAIN allowed_users : allowed_users[i] = [id |-> uid, password |-> password]

\* C11: a LOGIN that the server examines while its pair is not in the
\* credential table, or while a registered connection holds its identifier,
\* is answered in that step with LO_NAK, changes neither registry nor any
\* identifier or session, and leaves the handler at read_line with its
\* descriptor open; a LOGIN examined while its pair is in the table and no
\* registered connection holds its identifier goes on to be accepted, and the
\* accepting step answers LO_ACK and sets the identifier, whatever the
\* connection was answered before.
C11_LoginRefusedThenRetry ==
  [][\A c \in Conns :
       (rx'.conn = c /\ rx'.frame.type = LOGIN)
       => LET u == rx'.frame.source
              p == rx'.frame.data
              refused == ~InTable(u, p) \/ \E k \in Registered : id[k] = u
          IN  /\ (pc[c] = "read" /\ refused)
                   => /\ Answered(wire', c, LO_NAK, "Invalid credentials or already logged in")
                      /\ << client_list, session_list, id, session >>' =
                           << client_list, session_list, id, session >>
                      /\ pc'[c] = "read"
                      /\ fds'[sockfd'[c]] = c
              /\ (pc[c] = "read" /\ ~refused)
                   => /\ pc'[c] = "login_set"
                      /\ wire' = << >>
                      /\ msg'[c] = rx'.frame
              /\ pc[c] = "login_set"
                   => /\ Answered(wire', c, LO_ACK, "Login successful")
                      /\ id'[c] = u
                      /\ pc'[c] = "read"]_vars

\* Witness of C11: a connection has just been refused LOGIN ken with a wrong
\* password; nobody holds ken, and the connection is open at read_line.
C11_Witness ==
  \E c \in Conns :
    /\ rx = [conn |-> c, frame |-> Frame(LOGIN, "ken", "bad")]
    /\ Answered(wire, c, LO_NAK, "Invalid credentials or already logged in")
    /\ pc[c] = "read"
    /\ fds[sockfd[c]] = c
    /\ \A k \in Registered : id[k] # "ken"

\* C13: every connection in the client registry has had a LOGIN accepted.
C13_RegisteredOnlyAfterLogin ==
  \A k \in Registered : id[k] # ""

\* C14: the session registry never holds two entries of the same name.
C14_OneEntryPerSessionName ==
  \A i, j \in 1..Len(session_list) : i # j => session_list[i] # session_list[j]

\* What a listing shows of the clients cl, in that order.
RECURSIVE ListedClients(_)
ListedClients(cl) ==
  IF cl = << >> THEN ""
  ELSE LET k == Head(cl)
       IN  (IF session[k] = ""
            THEN id[k] \o " (session: None), "
            ELSE id[k] \o " (session: " \o session[k] \o "), ")
           \o ListedClients(Tail(cl))

\* What a listing shows of the sessions sl, in that order.
RECURSIVE ListedSessions(_)
ListedSessions(sl) ==
  IF sl = << >> THEN "" ELSE Head(sl) \o ", " \o ListedSessions(Tail(sl))

FirstLine(st) == SubSeq(st, 1, First(st, 1, "IsNewline") - 1)

\* The number of colon-separated fields of a line.
ColonFields(ln) == Cardinality({ i \in 1..Len(ln) : ln[i] = ":" }) + 1

\* The handler takes a line, or a part of one, off the stream in this step.
TakesLine == lpc = "read" /\ Len(stream') < Len(stream)

\* C12: when the handler reads a whole line that fits its buffer and has
\* fewer than three colon-separated fields, the empty line included, it does
\* not call process_message (so nothing is sent and no registry changes) and
\* it stays in its loop, at read_line, with the connection open.
C12_MalformedLineDiscarded ==
  [][(/\ TakesLine
      /\ ~cut
      /\ Len(FirstLine(stream)) <= max_len - 1
      /\ ColonFields(FirstLine(stream)) < 3)
     => /\ handled' = handled
        /\ lpc' = "read"]_vars

\* C19: when the handler reads from a line longer than max_len - 1, be it the
\* beginning of the line or what an earlier read_line left of it, it does not
\* call process_message and does not die.
C19_OverlongLineRejected ==
  [][(/\ TakesLine
      /\ cut \/ Len(FirstLine(stream)) > max_len - 1)
     => /\ handled' = handled
        /\ lpc' # "aborted"]_vars

\* C20: once both sides have decoded the line of a message whose source is
\* non-empty and has no colon and whose payload has no newline, the server and
\* the client each hold the type, size, source and payload that were encoded.
C20_DecodeInvertsEncode ==
  ( /\ c_pc = "client"
    /\ c_msg.source # << >>
    /\ ":" \notin Range(c_msg.source)
    /\ "\n" \notin Range(c_msg.data) )
  => /\ c_srv.msg = c_msg
     /\ c_cli.msg = c_msg

\* The frame is an acknowledgement that the server accepted the session.
Accepts(m) == m.type = JN_ACK \/ (m.type = NS_ACK /\ m.data = "Session created")

\* The frame is a refusal of a JOIN or of a NEW_SESS.
Refuses(m) == m.type = JN_NAK \/ (m.type = NS_ACK /\ m.data # "Session created")

\* C17: when a receive loop has dealt with an acknowledgement of a session,
\* current_session is the name the server accepted with it; when it has dealt
\* with a refusal, current_session is as before and pending_session is empty.
C17_AckPromotesAcceptedSession ==
  [][\A t \in 1..MaxLogins :
       (recv_thread[t].at = "switch" /\ recv_thread'[t].at = "read")
       => LET m == recv_thread[t].msg
          IN  /\ Accepts(m) => current_session' = m.name
              /\ Refuses(m) => /\ current_session' = current_session
                               /\ pending_session' = ""]_vars

\* C18: every step that takes loggedIn from 0 to 1 leaves current_session and
\* pending_session empty.
C18_LoginStartsWithoutSession ==
  [][(loggedIn = 0 /\ loggedIn' = 1)
     => (current_session' = "" /\ pending_session' = "")]_vars

\* C16: under fair scheduling, every connection whose read loop has ended
\* is eventually out of the client registry, with its descriptor closed and
\* its handler finished, whatever the other handlers broadcast meanwhile.
C16_TerminatedConnectionRemoved ==
  \A c \in TConns :
    (td_pc[c] = "close") ~> (td_pc[c] = "done" /\ ~td_open[c] /\ c \notin Range(td_list))

\* Thread t is inside an operation and its next call can return now.
CanProceed(t) ==
  /\ lk_todo[t] # << >>
  /\ Head(lk_todo[t]).call = "lock" => lk_holder[Head(lk_todo[t]).mutex] = 0

\* C21: no thread holds clients_mutex and sessions_mutex at once, and
\* whenever some thread is inside an operation, some such thread can go on:
\* the threads never all wait for one another's mutex.
C21_NeverBothMutexes ==
  /\ \A t \in LThreads :
       ~(lk_holder["clients_mutex"] = t /\ lk_holder["sessions_mutex"] = t)
  /\ (\E t \in LThreads : lk_todo[t] # << >>) => (\E t \in LThreads : CanProceed(t))

\* One thread is in the second section of QUERY or of remove_session_if_empty
\* while another holds clients_mutex and a third waits for a mutex.
C21_Witness ==
  /\ lk_holder["sessions_mutex"] # 0
  /\ lk_holder["clients_mutex"] # 0
  /\ lk_holder["sessions_mutex"] # lk_holder["clients_mutex"]
  /\ \E t \in LThreads : lk_todo[t] # << >> /\ ~CanProceed(t)

\* The receive loops that have been started and have not ended.
AliveLoops == { t \in 1..MaxLogins : recv_thread[t].at \in {"read", "switch"} }

\* C22: after every step at most one receive loop is alive, and a receive
\* loop whose read_line returns a frame has read it from the connection it
\* was started for (loop t is the one started by the t-th /login).
C22_OneLoopOnItsOwnSocket ==
  [][/\ Cardinality(AliveLoops') <= 1
     /\ \A t \in 1..MaxLogins :
          (recv_thread[t].at = "read" /\ recv_thread'[t].at = "switch") => cl_sockfd = t]_vars

\* Handler c takes the step, working on a frame of one of the given types.
Handles(c, types) == rx'.conn = c /\ rx'.frame.type \in types

\* C23: a step a handler takes on a JOIN, NEW_SESS, MESSAGE or QUERY frame
\* of a connection whose client->id is empty (no LOGIN was accepted on it)
\* changes neither the session registry nor any client's session, and sends
\* no MESSAGE and no QU_ACK.
C23_NoLoginNoRelay ==
  [][\A c \in Conns :
       (Handles(c, {JOIN, NEW_SESS, MESSAGE, QUERY}) /\ id[c] = "")
       => /\ session_list' = session_list
          /\ session' = session
          /\ \A i \in 1..Len(wire') : wire'[i].frame.type \notin {MESSAGE, QU_ACK}]_vars

\* C24: every MESSAGE frame a logged-in connection's handler writes in its
\* broadcast carries that connection's identifier as its source.
C24_SourceIsSenderIdentifier ==
  [][\A c \in Conns :
       (Handles(c, {MESSAGE}) /\ id[c] # "")
       => \A i \in 1..Len(wire') :
            wire'[i].frame.type = MESSAGE => wire'[i].frame.source = id[c]]_vars

\* C25: each send() of a broadcast, made for a registry entry that passed the
\* filter, writes to the connection of that entry: its descriptor is neither
\* closed nor handed out again to another connection.
C25_BroadcastWritesToOwner ==
  [][\A c \in Conns :
       (Handles(c, {MESSAGE}) /\ pc[c] = "read" /\ HasSession(c))
       => LET to == SelectSeq(client_list, LAMBDA k : IsRecipient(k, session[c], id[c]))
          IN  \A i \in 1..Len(wire') : wire'[i].to = to[i]]_vars

\* C26: the identifier of a connection that has one stays as it is in every
\* step but the one that tears the connection down.
C26_IdentifierFixedAfterLogin ==
  [][\A c \in Conns :
       (id[c] # "" /\ pc'[c] # "done") => id'[c] = id[c]]_vars

\* C27: two frames that have both arrived on each of two connections have
\* arrived on both in the same order, and two frames of one sender that have
\* both arrived on a connection have arrived in the order they were written.
C27_BroadcastsTotallyOrdered ==
  \A a \in BConns :
    \A i, j \in 1..Len(bc_out[a]) :
      i < j =>
        /\ \A b \in BConns :
             \A p, q \in 1..Len(bc_out[b]) :
               (bc_out[b][p] = bc_out[a][i] /\ bc_out[b][q] = bc_out[a][j]) => p < q
        /\ bc_out[a][i].from = bc_out[a][j].from => bc_out[a][i].seq < bc_out[a][j].seq

\* Two connections have each received the same three frames, of two senders,
\* one of which wrote two of them.
C27_Witness ==
  \E a, b \in BConns :
    /\ a # b
    /\ Len(bc_out[a]) = 3
    /\ bc_out[b] = bc_out[a]
    /\ \E i, j \in 1..3 : bc_out[a][i].from # bc_out[a][j].from

\* C28: the sender leaves fragment frag_no, for the next one or for the end
\* of the transfer, only in a step in which it receives ACK:frag_no; it
\* never gives the fragment up after a number of timeouts.
C28_AdvanceOnlyOnAck ==
  [][frag_no' # frag_no => (frag_no \in replies /\ frag_no \notin replies')]_vars

\* C29: once the receiver has reported the file received completely, the
\* file holds fragments 1 to the last, each once and in this order.
C29_FileWrittenOnceInOrder ==
  rx_pc = "handshake" => written = [k \in 1..FileFrags |-> k]
====
